---- MODULE Spec2Model ----
(***************************************************************************)
(* FFT microphone analyzer (src/src/main.rs).                              *)
(*                                                                         *)
(* Two threads: the cpal input-stream data callback ("audio") reassembles  *)
(* incoming chunks into windows of buffer_size samples, transforms each    *)
(* window with fft and stores the magnitudes in the shared slot            *)
(* fft_transform; the main thread ("main") polls the input events and      *)
(* calls Graph::run once per loop iteration.                               *)
(*                                                                         *)
(* Samples are f32 values in the program.  Here a sample is the position   *)
(* (1, 2, 3, ...) it has in the input stream, so that a dropped, repeated  *)
(* or reordered sample is visible.  A complex value or a magnitude is the  *)
(* set of samples it was computed from: the arithmetic of fft is not       *)
(* modelled, its data flow is.                                             *)
(***************************************************************************)
EXTENDS Integers, Sequences, FiniteSets, TLC

\* ---- bounds -------------------------------------------------------------
BufferExp == 2      \* buffer_size = 2^BufferExp (the program: 2^12)
MaxChunk == 6       \* longest chunk one callback delivers
MaxSamples == 13    \* samples delivered in one behaviour
MaxWidth == 2       \* widest window (pixels)
MouseRange == 2     \* the cursor x is in -MouseRange..MouseRange
MaxSelCursor == 55  \* select is applied to cursors -MaxSelCursor..MaxSelCursor,
MaxSelBarWidth == 5 \*   bar widths 0..MaxSelBarWidth
MaxSelBins == 10    \*   and 0..MaxSelBins bars
MaxKey == 96        \* NoteStatus is applied to the keys that round to 1..MaxKey
MaxFftLen == 130    \* fft is applied to signals of 0..MaxFftLen samples
MaxFairSamples == 7 \* FairSpec delivers at most MaxFairSamples samples

\* ---- program constants --------------------------------------------------
\* The sample rate and the highest displayed frequency are scaled with the
\* window (the program: 44100, 3000 and 2^12), keeping
\* 0 < max_bins_displayed_len < buffer_size.
stream_sample_rate == 8
max_displayed_frequency == 4
padding_top == 10
ground_y == 30
window_height == 600
I32Max == 2147483647

RECURSIVE pow(_, _)
pow(b, e) == IF e = 0 THEN 1 ELSE b * pow(b, e - 1)

buffer_size == pow(2, BufferExp)

\* Option<usize>
None == <<>>
Some(i) == <<i>>

VARIABLES
    \* shared between the threads (Arc<Mutex<..>>)
    buf,            \* fft_transform_buffer: samples not yet forming a window
    fft_transform,  \* the shared slot: the latest spectrum
    paused,         \* the pause flag
    mouse_x,        \* the cursor position
    \* owner of each mutex: "none", "audio" or "main"
    lock_buf, lock_result, lock_paused, lock_mouse,
    \* the audio callback
    pc_cb,          \* its position
    data,           \* the chunk the running callback was called with
    remaining,      \* its local `remaining`
    output,         \* its local `output` (the result of fft)
    \* the main thread
    pc_main,        \* its position
    width, height,  \* Graph.width, Graph.height
    data_buffer,    \* Graph.data_buffer: the consumer's working copy
    bars,           \* the bars the last Graph::run returned
    index,          \* the Option<usize> the last Graph::run returned
    panic,          \* what stopped the process, "none" while it runs
    \* history
    delivered,      \* number of samples handed to callbacks so far
    windows,        \* the windows passed to fft so far, in order
    oversized,      \* a chunk longer than buffer_size has been delivered
    since,          \* samples delivered by the callbacks entered after the
                    \*   one that last passed a window to fft
    \* application of a pure function to drawn arguments
    call, ret

shared == <<buf, fft_transform, paused, mouse_x>>
locks == <<lock_buf, lock_result, lock_paused, lock_mouse>>
audio == <<pc_cb, data, remaining, output>>
graph == <<width, height, data_buffer, bars, index>>
history == <<delivered, windows, oversized, since>>
pure == <<call, ret>>
vars == <<shared, locks, audio, pc_main, graph, panic, history, pure>>

\* ---- helpers ------------------------------------------------------------
Range(s) == {s[i] : i \in 1..Len(s)}

RECURSIVE BitAnd(_, _)
BitAnd(a, b) ==
    IF a = 0 \/ b = 0 THEN 0
    ELSE (a % 2) * (b % 2) + 2 * BitAnd(a \div 2, b \div 2)

\* ---- fft ------------------------------------------------------------
\* is_power_of_two testing for an even number
is_power_of_twoEven(n) == n # 0 /\ n % 2 = 0

\* lines 213-215
is_power_of_two(n) == n # 0 /\ BitAnd(n, n - 1) = 0

\* signal.slice(s![start..;2]), start counted from 0
Stride2(signal, start) ==
    [i \in 1..((Len(signal) - start + 1) \div 2) |-> signal[start + 2 * i - 1]]

\* fft(signal): [panic |-> TRUE] when the panic of line 220 is raised by this
\* call or by a call below it, else [panic |-> FALSE, out |-> the output].
\* output[k] and output[k + n/2] are computed from even[k] and odd[k].
RECURSIVE fft(_)
fft(signal) ==
    LET n == Len(signal) IN
    IF ~is_power_of_two(n) THEN [panic |-> TRUE, out |-> <<>>]
    ELSE IF n = 1 THEN [panic |-> FALSE, out |-> signal]
    ELSE
        LET max_frequency_range == n \div 2
            \* lines 231-238
            Butterfly(even, odd) ==
                IF even.panic \/ odd.panic THEN [panic |-> TRUE, out |-> <<>>]
                ELSE [panic |-> FALSE,
                      out |-> [j \in 1..n |->
                                LET k == ((j - 1) % max_frequency_range) + 1
                                IN  even.out[k] \cup odd.out[k]]]
        IN  \* lines 226-229: each half is transformed once
            CHOOSE r \in {Butterfly(even, odd) :
                            even \in {fft(Stride2(signal, 0))},
                            odd \in {fft(Stride2(signal, 1))}} : TRUE

\* buf.iter().map(|x| Complex::from(x))
ToComplex(samples) == [i \in 1..Len(samples) |-> {samples[i]}]

\* output.iter().map(|x| x.norm()).collect()
Norms(out) == [i \in 1..Len(out) |-> out[i]]

\* ---- the input stream data callback --------------------------------------
Running == panic = "none" /\ pc_main # "exited"

\* CbLock taking the lock of the slot together with the lock of the buffer
CbLockBoth(d) ==
    /\ Running
    /\ pc_cb = "idle"
    /\ lock_buf = "none"
    /\ lock_result = "none"
    /\ delivered + d <= MaxSamples
    /\ data' = [i \in 1..d |-> delivered + i]
    /\ delivered' = delivered + d
    /\ oversized' = (oversized \/ d > buffer_size)
    /\ since' = since + d
    /\ remaining' = <<>>
    /\ lock_buf' = "audio"
    /\ lock_result' = "audio"
    /\ pc_cb' = "split"
    /\ UNCHANGED <<shared, lock_paused, lock_mouse, output, pc_main, graph,
                   panic, windows, pure>>

\* line 272: the callback is called with a chunk of d samples and locks buf
CbLock(d) ==
    /\ Running
    /\ pc_cb = "idle"
    /\ lock_buf = "none"
    /\ delivered + d <= MaxSamples
    /\ data' = [i \in 1..d |-> delivered + i]
    /\ delivered' = delivered + d
    /\ oversized' = (oversized \/ d > buffer_size)
    /\ since' = since + d
    /\ remaining' = <<>>
    /\ lock_buf' = "audio"
    /\ pc_cb' = "split"
    /\ UNCHANGED <<shared, lock_result, lock_paused, lock_mouse, output,
                   pc_main, graph, panic, windows, pure>>

\* CbSplit with the test of line 280 written > instead of >=
CbSplitStrict ==
    /\ Running
    /\ pc_cb = "split"
    /\ LET sum_data == Len(buf) + Len(data)
           max_i == Len(data) - (sum_data - buffer_size)
       IN  IF Len(buf) < buffer_size /\ sum_data > buffer_size /\ max_i > 0
           THEN /\ buf' = buf \o SubSeq(data, 1, max_i)
                /\ remaining' = SubSeq(data, max_i + 1, Len(data))
           ELSE UNCHANGED <<buf, remaining>>
    /\ pc_cb' = "full"
    /\ UNCHANGED <<fft_transform, paused, mouse_x, locks, data, output,
                   pc_main, graph, panic, history, pure>>

\* lines 273-286
CbSplit ==
    /\ Running
    /\ pc_cb = "split"
    /\ LET sum_data == Len(buf) + Len(data)
           max_i == Len(data) - (sum_data - buffer_size)
       IN  IF Len(buf) < buffer_size /\ sum_data >= buffer_size /\ max_i > 0
           THEN /\ buf' = buf \o SubSeq(data, 1, max_i)
                /\ remaining' = SubSeq(data, max_i + 1, Len(data))
           ELSE UNCHANGED <<buf, remaining>>
    /\ pc_cb' = "full"
    /\ UNCHANGED <<fft_transform, paused, mouse_x, locks, data, output,
                   pc_main, graph, panic, history, pure>>

\* CbFft with the test of line 290 written >= instead of ==
CbFftAtLeast ==
    /\ Running
    /\ pc_cb = "full"
    /\ Len(buf) >= buffer_size
    /\ windows' = Append(windows, buf)
    /\ since' = 0
    /\ LET r == fft(ToComplex(buf))
       IN  IF r.panic
           THEN /\ panic' = "fft"
                /\ UNCHANGED <<output, pc_cb>>
           ELSE /\ output' = r.out
                /\ pc_cb' = "lock_result"
                /\ UNCHANGED panic
    /\ UNCHANGED <<shared, locks, data, remaining, pc_main, graph, delivered,
                   oversized, pure>>

\* lines 290-293: the buffer has its desired size, fft is called on it
CbFft ==
    /\ Running
    /\ pc_cb = "full"
    /\ Len(buf) = buffer_size
    /\ windows' = Append(windows, buf)
    /\ since' = 0
    /\ LET r == fft(ToComplex(buf))
       IN  IF r.panic
           THEN /\ panic' = "fft"
                /\ UNCHANGED <<output, pc_cb>>
           ELSE /\ output' = r.out
                /\ pc_cb' = "lock_result"
                /\ UNCHANGED panic
    /\ UNCHANGED <<shared, locks, data, remaining, pc_main, graph, delivered,
                   oversized, pure>>

\* line 314: fft_stream.lock()
CbLockResult ==
    /\ Running
    /\ pc_cb = "lock_result"
    /\ lock_result = "none"
    /\ lock_result' = "audio"
    /\ pc_cb' = "store"
    /\ UNCHANGED <<shared, lock_buf, lock_paused, lock_mouse, data, remaining,
                   output, pc_main, graph, panic, history, pure>>

\* CbStore extending the slot with the new spectrum instead of replacing it
CbStoreExtend ==
    /\ Running
    /\ pc_cb = "store"
    /\ fft_transform' = fft_transform \o Norms(output)
    /\ buf' = remaining
    /\ lock_result' = "none"
    /\ lock_buf' = "none"
    /\ pc_cb' = "idle"
    /\ data' = <<>>
    /\ remaining' = <<>>
    /\ output' = <<>>
    /\ UNCHANGED <<paused, mouse_x, lock_paused, lock_mouse, pc_main, graph,
                   panic, history, pure>>

\* CbStore leaving the guard of the slot alive after the callback returned
CbStoreLeakGuard ==
    /\ Running
    /\ pc_cb = "store"
    /\ fft_transform' = Norms(output)
    /\ buf' = remaining
    /\ lock_buf' = "none"
    /\ pc_cb' = "idle"
    /\ data' = <<>>
    /\ remaining' = <<>>
    /\ output' = <<>>
    /\ UNCHANGED <<paused, mouse_x, lock_result, lock_paused, lock_mouse,
                   pc_main, graph, panic, history, pure>>

\* lines 315-316, and the guards dropped at line 321
CbStore ==
    /\ Running
    /\ pc_cb = "store"
    /\ fft_transform' = Norms(output)
    /\ buf' = remaining
    /\ lock_result' = "none"
    /\ lock_buf' = "none"
    /\ pc_cb' = "idle"
    /\ data' = <<>>
    /\ remaining' = <<>>
    /\ output' = <<>>
    /\ UNCHANGED <<paused, mouse_x, lock_paused, lock_mouse, pc_main, graph,
                   panic, history, pure>>

\* lines 317-320: the buffer is not yet full
CbAppend ==
    /\ Running
    /\ pc_cb = "full"
    /\ Len(buf) # buffer_size
    /\ buf' = buf \o data
    /\ lock_buf' = "none"
    /\ pc_cb' = "idle"
    /\ data' = <<>>
    /\ remaining' = <<>>
    /\ UNCHANGED <<fft_transform, paused, mouse_x, lock_result, lock_paused,
                   lock_mouse, output, pc_main, graph, panic, history, pure>>

Callback ==
    \/ \E d \in 0..MaxChunk : CbLock(d)
    \/ CbSplit
    \/ CbFft
    \/ CbLockResult
    \/ CbStore
    \/ CbAppend

\* ---- Graph::run ------------------------------------------------------
Min(a, b) == IF a <= b THEN a ELSE b

\* a / b of two i32, b > 0: the quotient is truncated towards zero
TruncDiv(a, b) == IF a >= 0 THEN a \div b ELSE -((-a) \div b)

\* 2^(2^e) modulo m
RECURSIVE Pow2Pow2Mod(_, _)
Pow2Pow2Mod(e, m) ==
    IF e = 0 THEN 2 % m
    ELSE (Pow2Pow2Mod(e - 1, m) * Pow2Pow2Mod(e - 1, m)) % m

\* (q as usize) % m of an i32 q on a 64-bit target: a negative q is
\* sign-extended to 2^64 + q
UsizeMod(q, m) ==
    IF q >= 0 THEN q % m ELSE (Pow2Pow2Mod(6, m) + (q % m)) % m

\* lines 150-151
max_bins_displayed_len(len) ==
    (max_displayed_frequency * len) \div stream_sample_rate

\* line 155: (width as f64 / max_bins_displayed_len as f64) as i32; the cast
\* saturates, and x / 0.0 is +inf for x > 0 and NaN (cast to 0) for x = 0
frequency_bar_width(w, max_bins) ==
    IF max_bins = 0 THEN (IF w = 0 THEN 0 ELSE I32Max)
    ELSE Min(w \div max_bins, I32Max)

\* select without the test of lines 203-205
selectNoEdge(mx, bar_width, max_bins) ==
    IF bar_width = 0 \/ max_bins = 0
    THEN [panic |-> TRUE, index |-> None]
    ELSE [panic |-> FALSE,
          index |-> Some(UsizeMod(TruncDiv(mx, bar_width), max_bins))]

\* lines 203-209: the selected bin for cursor mx, bars bar_width wide and
\* max_bins bars
select(mx, bar_width, max_bins) ==
    IF mx >= bar_width * max_bins THEN [panic |-> FALSE, index |-> None]
    ELSE IF bar_width = 0 \/ max_bins = 0
         THEN [panic |-> TRUE, index |-> None]
         ELSE [panic |-> FALSE,
               index |-> Some(UsizeMod(TruncDiv(mx, bar_width), max_bins))]

\* lines 172-196: the fields of a GraphBar that are integer arithmetic on
\* the bar's position; the heights and the amplitude percentage are f32
\* arithmetic on the magnitudes
Bars(bar_width, max_bins) ==
    [i \in 1..max_bins |->
        [x |-> bar_width * (i - 1), width |-> bar_width,
         analyzing_bin_index |-> i - 1]]

\* ---- NoteStatus ------------------------------------------------------
\* Keys and note numbers are f32 in the program; here they are integers, in
\* hundredths of a semitone (key 49.0 is 4900).

\* a % b on f32, b > 0: the remainder has the sign of a
Rem(a, b) == IF a >= 0 THEN a % b ELSE -((-a) % b)

\* f32::round, half away from zero, of a value in hundredths
Round(x) ==
    IF x >= 0 THEN ((x + 50) \div 100) * 100 ELSE -(((50 - x) \div 100) * 100)

\* lines 61-63
key_to_raw_note_number(key) == Rem(key - 100, 1200) - 200

notes_names ==
    <<"C ", "C#", "D ", "D#", "E ", "F ", "F#", "G ", "G#", "A ", "A#", "B ">>

\* lines 69-74: (key - 1.0) as usize truncates and saturates at 0; an index
\* of 12 or more panics
note_number_to_name(key) ==
    LET i == IF key - 100 <= 0 THEN 0 ELSE (key - 100) \div 100
    IN  IF i >= 12 THEN [panic |-> TRUE, name |-> ""]
        ELSE [panic |-> FALSE, name |-> notes_names[i + 1]]

\* lines 76-78: the difference times 100, rounded; `as i8` saturates
get_error_percentage(raw_note_number, target_note_number) ==
    LET e == raw_note_number - target_note_number
    IN  IF e > 127 THEN 127 ELSE IF e < -128 THEN -128 ELSE e

\* lines 95-97: `as u8` saturates
get_octave_by_key_number(key_number) ==
    LET o == (Round(key_number) \div 1200) + 1
    IN  IF o < 0 THEN 0 ELSE IF o > 255 THEN 255 ELSE o

\* lines 28-38: NoteStatus::new from the key number on (line 27 computes
\* the key number with log2)
NoteStatus_new(key_number) ==
    LET raw_note_number == key_to_raw_note_number(key_number)
        note_number == key_to_raw_note_number(Round(key_number))
    IN  [key_number |-> key_number,
         raw_note_number |-> raw_note_number,
         note_number |-> note_number,
         error_percentage |->
            get_error_percentage(raw_note_number, note_number)]

\* ---- the main thread ---------------------------------------------------
Heights == {ground_y + padding_top - 1, window_height}

\* lines 368-375: the window's size is read at the top of each iteration
LoopTop ==
    /\ Running
    /\ pc_main = "top"
    /\ width' \in 1..MaxWidth
    /\ height' \in Heights
    /\ pc_main' = "poll"
    /\ UNCHANGED <<shared, locks, audio, data_buffer, bars, index, panic,
                   history, pure>>

\* lines 379-383: Quit or Escape leaves the loop, the process ends
Quit ==
    /\ Running
    /\ pc_main = "poll"
    /\ pc_main' = "exited"
    /\ UNCHANGED <<shared, locks, audio, graph, panic, history, pure>>

\* lines 384-390: KeyDown P
KeyDownP ==
    /\ Running
    /\ pc_main = "poll"
    /\ lock_paused = "none"
    /\ paused' = ~paused
    /\ UNCHANGED <<buf, fft_transform, mouse_x, locks, audio, pc_main, graph,
                   panic, history, pure>>

\* lines 391-394: MouseMotion
MouseMotion(x) ==
    /\ Running
    /\ pc_main = "poll"
    /\ lock_mouse = "none"
    /\ mouse_x' = x
    /\ UNCHANGED <<buf, fft_transform, paused, locks, audio, pc_main, graph,
                   panic, history, pure>>

\* line 397 to 399: no event is left, Graph::run is called
PollDone ==
    /\ Running
    /\ pc_main = "poll"
    /\ pc_main' = "run"
    /\ UNCHANGED <<shared, locks, audio, graph, panic, history, pure>>

\* line 141: self.paused.lock()
RunLockPaused ==
    /\ Running
    /\ pc_main = "run"
    /\ lock_paused = "none"
    /\ lock_paused' = "main"
    /\ pc_main' = "run_paused"
    /\ UNCHANGED <<shared, lock_buf, lock_result, lock_mouse, audio, graph,
                   panic, history, pure>>

\* lines 142-143: not paused, self.data_locker.lock()
RunLockData ==
    /\ Running
    /\ pc_main = "run_paused"
    /\ ~paused
    /\ lock_result = "none"
    /\ lock_result' = "main"
    /\ pc_main' = "run_clone"
    /\ UNCHANGED <<shared, lock_buf, lock_paused, lock_mouse, audio, graph,
                   panic, history, pure>>

\* RunPaused refreshing the working copy although the flag is set
RunPausedRefresh ==
    /\ Running
    /\ pc_main = "run_paused"
    /\ paused
    /\ data_buffer' = fft_transform
    /\ lock_paused' = "none"
    /\ pc_main' = "run_bars"
    /\ UNCHANGED <<shared, lock_buf, lock_result, lock_mouse, audio, width,
                   height, bars, index, panic, history, pure>>

\* lines 142, 146: paused, the block is left
RunPaused ==
    /\ Running
    /\ pc_main = "run_paused"
    /\ paused
    /\ lock_paused' = "none"
    /\ pc_main' = "run_bars"
    /\ UNCHANGED <<shared, lock_buf, lock_result, lock_mouse, audio, graph,
                   panic, history, pure>>

\* RunClone without the block of lines 140-146: the guard of the slot lives
\* on after the clone
RunCloneKeepGuard ==
    /\ Running
    /\ pc_main = "run_clone"
    /\ data_buffer' = fft_transform
    /\ lock_paused' = "none"
    /\ pc_main' = "run_bars"
    /\ UNCHANGED <<shared, lock_buf, lock_result, lock_mouse, audio, width,
                   height, bars, index, panic, history, pure>>

\* lines 144-146: the slot is cloned, both guards are dropped
RunClone ==
    /\ Running
    /\ pc_main = "run_clone"
    /\ data_buffer' = fft_transform
    /\ lock_result' = "none"
    /\ lock_paused' = "none"
    /\ pc_main' = "run_bars"
    /\ UNCHANGED <<shared, lock_buf, lock_mouse, audio, width, height, bars,
                   index, panic, history, pure>>

\* RunBars without the early return of lines 162-164
RunBarsNoEarlyReturn(overflow_checks) ==
    /\ Running
    /\ pc_main = "run_bars"
    /\ LET max_bins == max_bins_displayed_len(Len(data_buffer))
           bar_width == frequency_bar_width(width, max_bins)
       IN  IF max_bins > Len(data_buffer)
           THEN /\ panic' = "slice"
                /\ UNCHANGED <<pc_main, bars, index>>
           ELSE IF Len(data_buffer) = 0
           THEN /\ panic' = "unwrap"
                /\ UNCHANGED <<pc_main, bars, index>>
           ELSE IF /\ max_bins > 0
                   /\ height < ground_y + padding_top
                   /\ overflow_checks
           THEN /\ panic' = "overflow"
                /\ UNCHANGED <<pc_main, bars, index>>
           ELSE /\ bars' = Bars(bar_width, max_bins)
                /\ pc_main' = "run_select"
                /\ UNCHANGED <<panic, index>>
    /\ UNCHANGED <<shared, locks, audio, width, height, data_buffer, history,
                   pure>>

\* lines 150-196.  overflow_checks: the build traps integer overflow (as a
\* debug build does) or wraps (as a release build does).
RunBars(overflow_checks) ==
    /\ Running
    /\ pc_main = "run_bars"
    /\ LET max_bins == max_bins_displayed_len(Len(data_buffer))
           bar_width == frequency_bar_width(width, max_bins)
       IN  IF max_bins > Len(data_buffer)
           THEN \* line 152: the slice is out of range
                /\ panic' = "slice"
                /\ UNCHANGED <<pc_main, bars, index>>
           ELSE IF Len(data_buffer) < buffer_size
           THEN \* lines 162-164
                /\ bars' = <<>>
                /\ index' = None
                /\ pc_main' = "after_run"
                /\ UNCHANGED panic
           ELSE IF Len(data_buffer) = 0
           THEN \* lines 165-170: max_by of nothing is None, unwrap panics
                /\ panic' = "unwrap"
                /\ UNCHANGED <<pc_main, bars, index>>
           ELSE IF /\ max_bins > 0
                   /\ height < ground_y + padding_top
                   /\ overflow_checks
           THEN \* line 175: self.height - ground_y - padding_top on u32
                /\ panic' = "overflow"
                /\ UNCHANGED <<pc_main, bars, index>>
           ELSE /\ bars' = Bars(bar_width, max_bins)
                /\ pc_main' = "run_select"
                /\ UNCHANGED <<panic, index>>
    /\ UNCHANGED <<shared, locks, audio, width, height, data_buffer, history,
                   pure>>

\* lines 198-209
RunSelect ==
    /\ Running
    /\ pc_main = "run_select"
    /\ lock_mouse = "none"
    /\ LET max_bins == max_bins_displayed_len(Len(data_buffer))
           r == select(mouse_x, frequency_bar_width(width, max_bins), max_bins)
       IN  IF r.panic
           THEN \* line 207: division or remainder by zero
                /\ panic' = "select"
                /\ UNCHANGED <<pc_main, index>>
           ELSE /\ index' = r.index
                /\ pc_main' = "after_run"
                /\ UNCHANGED panic
    /\ UNCHANGED <<shared, locks, audio, width, height, data_buffer, bars,
                   history, pure>>

\* lines 401-457: the selected bar is read and printed, the bars are drawn
AfterRun ==
    /\ Running
    /\ pc_main = "after_run"
    /\ IF index # None /\ index[1] >= Len(bars)
       THEN \* line 402: bars[frequency_data_index] is out of range
            /\ panic' = "index"
            /\ UNCHANGED <<pc_main, bars, index>>
       ELSE /\ pc_main' = "top"
            /\ bars' = <<>>
            /\ index' = None
            /\ UNCHANGED panic
    /\ UNCHANGED <<shared, locks, audio, width, height, data_buffer, history,
                   pure>>

Main ==
    \/ LoopTop
    \/ Quit
    \/ KeyDownP
    \/ \E x \in -MouseRange..MouseRange : MouseMotion(x)
    \/ PollDone
    \/ RunLockPaused
    \/ RunLockData
    \/ RunPaused
    \/ RunClone
    \/ \E overflow_checks \in BOOLEAN : RunBars(overflow_checks)
    \/ RunSelect
    \/ AfterRun

NoCall == [fn |-> "none"]

Init ==
    /\ buf = <<>>
    /\ fft_transform = <<>>
    /\ paused = FALSE
    /\ mouse_x = 0
    /\ lock_buf = "none"
    /\ lock_result = "none"
    /\ lock_paused = "none"
    /\ lock_mouse = "none"
    /\ pc_cb = "idle"
    /\ data = <<>>
    /\ remaining = <<>>
    /\ output = <<>>
    /\ pc_main = "top"
    /\ width \in 1..MaxWidth
    /\ height \in Heights
    /\ data_buffer = <<>>
    /\ bars = <<>>
    /\ index = None
    /\ panic = "none"
    /\ delivered = 0
    /\ windows = <<>>
    /\ oversized = FALSE
    /\ since = 0
    /\ call = NoCall
    /\ ret = NoCall

Next == Callback \/ Main

Spec == Init /\ [][Next]_vars

\* The steps a started callback takes by itself (lines 280-321): the audio
\* thread is scheduled, and a thread blocked in lock() at line 315 is woken
\* when the mutex is free.
CbProgress == CbSplit \/ CbFft \/ CbStore \/ CbAppend

\* The steps the main thread takes by itself from line 399 to the end of the
\* loop's body; its lock() calls are those of lines 141, 143 and 199.
MainProgress ==
    \/ RunPaused
    \/ RunClone
    \/ \E overflow_checks \in BOOLEAN : RunBars(overflow_checks)
    \/ RunSelect
    \/ AfterRun

\* The program under fair scheduling: a thread that can run does run, and a
\* thread blocked in Mutex::lock acquires the mutex if it is free again and
\* again.
\* The callbacks of FairSpec: the stream delivers MaxFairSamples samples
FairCallback ==
    \/ \E d \in 0..MaxChunk : CbLock(d) /\ delivered' <= MaxFairSamples
    \/ CbSplit
    \/ CbFft
    \/ CbLockResult
    \/ CbStore
    \/ CbAppend

FairInit == Init /\ width = MaxWidth /\ height = window_height

FairNext == FairCallback \/ Main

FairSpec ==
    /\ FairInit
    /\ [][FairNext]_vars
    /\ WF_vars(CbProgress)
    /\ WF_vars(MainProgress)
    /\ SF_vars(CbLockResult)
    /\ SF_vars(RunLockPaused)
    /\ SF_vars(RunLockData)

\* ---- pure functions applied to drawn arguments ------------------------
PureInit == Init /\ width = 1 /\ height = window_height

\* select (lines 203-209) applied once
Select(mx, bar_width, max_bins) ==
    /\ call = NoCall
    /\ call' = [fn |-> "select", mouse_x |-> mx,
                frequency_bar_width |-> bar_width,
                max_bins_displayed_len |-> max_bins]
    /\ ret' = select(mx, bar_width, max_bins)
    /\ UNCHANGED <<shared, locks, audio, pc_main, graph, panic, history>>

NextSelect ==
    \E mx \in -MaxSelCursor..MaxSelCursor, bar_width \in 0..MaxSelBarWidth,
       max_bins \in 0..MaxSelBins : Select(mx, bar_width, max_bins)

SpecSelect == PureInit /\ [][NextSelect]_vars

\* NoteStatus::new applied once to a key number, and the name and the octave
\* the render loop prints for it (lines 410-411)
NoteNew(key_number) ==
    /\ call = NoCall
    /\ call' = [fn |-> "NoteStatus::new", key_number |-> key_number]
    /\ LET n == NoteStatus_new(key_number)
       IN  ret' = [note_status |-> n,
                   note |-> note_number_to_name(n.note_number),
                   octave |-> get_octave_by_key_number(n.key_number)]
    /\ UNCHANGED <<shared, locks, audio, pc_main, graph, panic, history>>

NextNote == \E key_number \in 50..(MaxKey * 100 + 49) : NoteNew(key_number)

SpecNote == PureInit /\ [][NextNote]_vars

\* fft applied once to a signal of n samples
Fft(n) ==
    /\ call = NoCall
    /\ call' = [fn |-> "fft", len |-> n]
    /\ ret' = fft(ToComplex([i \in 1..n |-> i]))
    /\ UNCHANGED <<shared, locks, audio, pc_main, graph, panic, history>>

NextFft == \E n \in 0..MaxFftLen : Fft(n)

SpecFft == PureInit /\ [][NextFft]_vars

\* ---- the accumulator: claims C1 to C4 ------------------------------------
RECURSIVE Flatten(_)
Flatten(ws) == IF ws = <<>> THEN <<>> ELSE Head(ws) \o Flatten(Tail(ws))

\* the samples from-th to to-th of the input stream
Stream(from, to) == [i \in 1..(to - from + 1) |-> from + i - 1]

\* C1: window reassembly.  Once the last chunk has been processed, with
\* delivered = k * buffer_size + r samples received (0 <= r < buffer_size),
\* exactly k windows have been passed to fft, each buffer_size long, their
\* concatenation is the first k * buffer_size samples and the buffer holds
\* exactly the last r samples.
C1_WindowReassembly ==
    pc_cb = "idle" =>
        LET k == delivered \div buffer_size
            r == delivered % buffer_size
        IN  /\ Len(windows) = k
            /\ \A i \in 1..Len(windows) : Len(windows[i]) = buffer_size
            /\ Flatten(windows) = Stream(1, k * buffer_size)
            /\ buf = Stream(k * buffer_size + 1, delivered)

\* C2: sample conservation.  After any sequence of callbacks the windows
\* emitted so far followed by the buffer are the chunks received so far: no
\* sample is dropped, repeated or reordered.
C2_SampleConservation ==
    pc_cb = "idle" => Flatten(windows) \o buf = Stream(1, delivered)

\* C3: every window passed to fft is exactly buffer_size long, and the
\* power-of-two panic of fft is never raised, by the call or below it.
C3_WindowsFitFft ==
    /\ \A i \in 1..Len(windows) : Len(windows[i]) = buffer_size
    /\ panic # "fft"

\* C3 witness: a window went through fft and a chunk left more than one
\* window's worth of samples in the buffer
C3_Witness ==
    /\ Len(windows) = 1
    /\ Len(fft_transform) = buffer_size
    /\ Len(buf) > buffer_size
    /\ panic = "none"

\* C4: the full-buffer edge case.  A callback entered with exactly
\* buffer_size samples in the buffer appends nothing to it, passes it to fft
\* as a window, and leaves the whole incoming chunk as the new buffer.
C4_FullBufferStep ==
    /\ (pc_cb = "split" /\ Len(buf) = buffer_size) => buf' = buf
    /\ (pc_cb = "full" /\ pc_cb' # "full" /\ Range(buf) \cap Range(data) = {}
            /\ Len(buf) = buffer_size)
        => windows' = Append(windows, buf)
    /\ (pc_cb = "store" /\ pc_cb' = "idle"
            /\ Range(buf) \cap Range(data) = {})
        => buf' = data
C4_FullBufferEdgeCase == [][C4_FullBufferStep]_vars

\* ---- the shared slot and Graph::run: claims C5 to C8 ----------------------
\* the spectrum of window w: buffer_size magnitudes, each computed from all
\* the samples of w and from nothing else
SpectrumOf(w) == [k \in 1..buffer_size |-> Range(w)]

\* the positions of the main thread inside Graph::run
InRun == {"run_paused", "run_clone", "run_bars", "run_select"}

C5_ProducerIgnoresPause ==
    (pc_cb = "idle" /\ windows # <<>>) =>
        fft_transform = SpectrumOf(windows[Len(windows)])

C5_Step ==
    \* a step of Graph::run with the flag set
    /\ (pc_main' # pc_main /\ pc_main \in InRun /\ paused) =>
        /\ data_buffer' = data_buffer
        /\ lock_result # "main"
        /\ lock_result' # "main"
    \* with the flag clear the slot is locked and copied
    /\ (pc_main' # pc_main /\ pc_main = "run_paused" /\ ~paused) =>
        (lock_result' = "main" /\ pc_main' = "run_clone")
    /\ (pc_main' # pc_main /\ pc_main = "run_clone") =>
        data_buffer' = fft_transform
    \* the callback's store, whatever the flag is
    /\ (pc_cb = "store" /\ pc_cb' # pc_cb) =>
        fft_transform' = SpectrumOf(windows[Len(windows)])

\* C5: pause freezes the consumer only.  In a Graph::run executed with the
\* pause flag set the working copy is unchanged and the slot's lock is not
\* taken; with the flag clear the working copy becomes the slot's contents;
\* and the callback overwrites the slot after every window it completes,
\* whatever the flag is.
C5_PauseFreezesConsumerOnly == []C5_ProducerIgnoresPause /\ [][C5_Step]_vars

\* C5 witness: a Graph::run has returned with the flag set, its working copy
\* is the first spectrum and the slot has been overwritten with the second
C5_Witness ==
    /\ paused
    /\ pc_main = "after_run"
    /\ Len(windows) = 2
    /\ data_buffer = SpectrumOf(windows[1])
    /\ fft_transform = SpectrumOf(windows[2])

Whole(s) ==
    \/ s = <<>>
    \/ \E i \in 1..Len(windows) : s = SpectrumOf(windows[i])

C6_Whole ==
    /\ Whole(fft_transform)
    /\ Whole(data_buffer)
    /\ (pc_cb = "idle" /\ windows # <<>>) => fft_transform # <<>>

C6_Step ==
    /\ fft_transform' # fft_transform =>
        (pc_cb = "store" /\ lock_result = "audio" /\ pc_main' = pc_main)
    /\ data_buffer' # data_buffer =>
        (lock_result = "main" /\ data_buffer' = fft_transform)

\* C6: whole-spectrum hand-off.  The slot and the working copy are each
\* empty (the slot only until the first window completes) or one complete
\* spectrum of a single window; the slot is written by the callback alone,
\* under its lock, and the working copy is what the slot held under the lock.
C6_WholeSpectrumHandOff == []C6_Whole /\ [][C6_Step]_vars

\* C6 witness: the callback waits for the slot with the second spectrum
\* while Graph::run holds the lock and copies the first
C6_Witness ==
    /\ pc_main = "run_clone"
    /\ pc_cb = "lock_result"
    /\ Len(windows) = 2
    /\ fft_transform = SpectrumOf(windows[1])

\* C7: the startup transient.  While the working copy holds fewer than
\* buffer_size samples Graph::run fails nowhere and returns no bars and no
\* selected bin.
C7_StartupTransient ==
    Len(data_buffer) < buffer_size =>
        /\ panic \notin {"slice", "unwrap", "overflow", "select", "index"}
        /\ pc_main # "run_select"
        /\ pc_main = "after_run" => (bars = <<>> /\ index = None)

\* C7 witness: Graph::run has returned with an empty working copy, paused,
\* while the slot already holds a spectrum
C7_Witness ==
    /\ pc_main = "after_run"
    /\ data_buffer = <<>>
    /\ paused
    /\ Len(fft_transform) = buffer_size
    /\ bars = <<>>
    /\ index = None

\* C8: bin selection.  With a full working copy, Graph::run returns no bin
\* when the cursor is at or beyond bar width * number of bars, and otherwise
\* returns (cursor / bar width) mod number of bars.
C8_BinSelection ==
    (Len(data_buffer) = buffer_size
        /\ (pc_main = "after_run" \/ panic = "select")) =>
        LET max_bins == max_bins_displayed_len(Len(data_buffer))
            bar_width == frequency_bar_width(width, max_bins)
        IN  /\ panic = "none"
            /\ IF mouse_x >= bar_width * max_bins
               THEN index = None
               ELSE index = Some((mouse_x \div bar_width) % max_bins)

\* ---- select and NoteStatus: claims C9 and C10 ------------------------------
\* C9 as claimed: a cursor at 0 selects bin 0 (read for a display that has
\* a bar to select: at least one bar, at least 1 wide), and with 10 bars 5
\* wide a cursor at 52 selects bin (52/5) mod 10 = 0.
C9_SelectTestCases ==
    call.fn = "select" =>
        /\ (call.mouse_x = 0 /\ call.frequency_bar_width >= 1
                /\ call.max_bins_displayed_len >= 1)
            => ret = [panic |-> FALSE, index |-> Some(0)]
        /\ (call.mouse_x = 52 /\ call.frequency_bar_width = 5
                /\ call.max_bins_displayed_len = 10)
            => ret = [panic |-> FALSE, index |-> Some(0)]

\* C9 as amended: a cursor at 0 selects bin 0 when the bars are at least 1
\* wide and there is at least one, and nothing otherwise; with 10 bars 5 wide
\* a cursor at 52 is beyond the last bar (52 >= 50) and selects nothing.
C9_SelectCases ==
    call.fn = "select" =>
        /\ call.mouse_x = 0 =>
            ret = [panic |-> FALSE,
                   index |-> IF call.frequency_bar_width >= 1
                                /\ call.max_bins_displayed_len >= 1
                             THEN Some(0) ELSE None]
        /\ (call.mouse_x = 52 /\ call.frequency_bar_width = 5
                /\ call.max_bins_displayed_len = 10)
            => ret = [panic |-> FALSE, index |-> None]

\* C9 witness: select was applied to the cursor 52 with 10 bars 5 wide
C9_Witness ==
    /\ call = [fn |-> "select", mouse_x |-> 52, frequency_bar_width |-> 5,
               max_bins_displayed_len |-> 10]
    /\ ret.index = None

\* the name of piano key k (key 1 is A0, key 4 is C1, key 49 is A4)
KeyName(k) == notes_names[((k + 8) % 12) + 1]

\* C10: pitch-class mapping.  For every integer key k in 1..MaxKey,
\* key_to_raw_note_number(k) is in 1..12 (1 = C, ..., 12 = B) and the name
\* obtained from it is the name of key k; key 49 gives "A ".
C10_PitchClass ==
    (call.fn = "NoteStatus::new" /\ call.key_number % 100 = 0) =>
        /\ ret.note_status.raw_note_number \in {100 * j : j \in 1..12}
        /\ ret.note_status.note_number = ret.note_status.raw_note_number
        /\ ret.note = [panic |-> FALSE,
                       name |-> KeyName(call.key_number \div 100)]

\* ---- NoteStatus and fft: claims C11 to C13 ---------------------------------
\* C11: the sign of the tuning error.  error_percentage is 0 at an integer
\* key, positive above the nearest integer key (sharp) and negative below it
\* (flat), also around the keys k with (k - 1) mod 12 = 0.
C11_ErrorSign ==
    call.fn = "NoteStatus::new" =>
        LET key == call.key_number
            nearest == Round(key)
            e == ret.note_status.error_percentage
        IN  /\ key = nearest => e = 0
            /\ key > nearest => e > 0
            /\ key < nearest => e < 0

\* the octave of piano key k: it increases at each C (keys 4, 16, 28, ...)
KeyOctave(k) == (k + 8) \div 12

\* C12: octave reporting.  For every integer key 1..88 the octave printed is
\* the octave of the key; key 49 (A4) is printed as "A " with octave 4.
C12_Octave ==
    (call.fn = "NoteStatus::new" /\ call.key_number % 100 = 0
        /\ call.key_number \div 100 \in 1..88) =>
        /\ ret.octave = KeyOctave(call.key_number \div 100)
        /\ call.key_number = 4900 =>
            (ret.note = [panic |-> FALSE, name |-> "A "] /\ ret.octave = 4)

RECURSIVE PowerOfTwo(_)
PowerOfTwo(n) == n = 1 \/ (n > 1 /\ n % 2 = 0 /\ PowerOfTwo(n \div 2))

\* C13: the power-of-two precondition.  fft panics for every length that is
\* no power of two (0, 3, 100, ...), and for a power of two n >= 1 it returns
\* an output of n values.
C13_PowerOfTwoPrecondition ==
    call.fn = "fft" =>
        IF PowerOfTwo(call.len)
        THEN ~ret.panic /\ Len(ret.out) = call.len
        ELSE ret.panic

\* C13 witness: fft was applied to 100 samples and panicked
C13_Witness == call = [fn |-> "fft", len |-> 100] /\ ret.panic

\* ---- the locks: claims C14 and C15 ----------------------------------------
\* C14 as claimed: the callback holds neither the lock of the buffer nor the
\* lock of the slot while fft is computed on a completed window.
C14_NoLockDuringFft ==
    (pc_cb = "full" /\ Len(buf) = buffer_size) =>
        (lock_buf # "audio" /\ lock_result # "audio")

\* C14 as amended: the callback holds the lock of the buffer from its entry
\* to its return, the computation of fft included, and holds the lock of the
\* slot only for the replace of the slot, never while fft is computed.
C14_LocksOfCallback ==
    /\ lock_buf = "audio" <=> pc_cb # "idle"
    /\ lock_result = "audio" <=> pc_cb = "store"
    /\ lock_buf \in {"none", "audio"}

\* C14 witness: fft is about to be computed on a full buffer, under the lock
\* of the buffer, while Graph::run holds the lock of the slot
C14_Witness ==
    /\ pc_cb = "full"
    /\ Len(buf) = buffer_size
    /\ lock_buf = "audio"
    /\ lock_result = "main"

C15_Held ==
    /\ lock_result = "audio" =>
        (pc_cb = "store" /\ Len(output) = buffer_size
            /\ windows # <<>> /\ output = SpectrumOf(windows[Len(windows)]))
    /\ lock_result = "main" => pc_main = "run_clone"

C15_Step ==
    /\ (lock_result = "audio" /\ pc_cb' # pc_cb) =>
        (lock_result' = "none" /\ fft_transform' = Norms(output))
    /\ (lock_result = "main" /\ pc_main' # pc_main) =>
        (lock_result' = "none" /\ data_buffer' = fft_transform)

\* C15: the lock of the slot is held only for the replace of the slot (by
\* the callback, once fft has returned its output) or for the clone (by
\* Graph::run); the holder's next step is the replace or the clone and
\* releases it, so nobody waits for the slot while a transform runs.
C15_SlotLockIsShort == []C15_Held /\ [][C15_Step]_vars

\* C15 witness: Graph::run is not paused and waits for the slot while the
\* callback holds it for the replace
C15_Witness ==
    /\ pc_main = "run_paused"
    /\ ~paused
    /\ lock_result = "audio"

\* ---- the accumulator again: claims C16 to C18 ------------------------------
\* C16: the bounded buffer.  After every completed callback the buffer holds
\* strictly fewer than buffer_size samples.
C16_BoundedBuffer == pc_cb = "idle" => Len(buf) < buffer_size

C17_Between ==
    (~oversized /\ pc_cb = "idle") =>
        /\ Len(buf) < buffer_size
        /\ Flatten(windows) \o buf = Stream(1, delivered)

C17_Step ==
    ~oversized =>
        \* a window is passed to fft by the callback whose chunk holds the
        \* buffer_size-th sample since the previous window
        /\ windows' # windows =>
            /\ delivered - Len(data) < Len(windows') * buffer_size
            /\ Len(windows') * buffer_size <= delivered
        \* and a callback that passes none has not received that sample
        /\ (pc_cb = "full" /\ pc_cb' = "idle") =>
            delivered < (Len(windows) + 1) * buffer_size

\* C17: with no chunk longer than buffer_size, the buffer holds strictly
\* fewer than buffer_size samples after every callback, a window is emitted
\* in exactly the callback that delivers the buffer_size-th sample since the
\* previous window, and the windows followed by the buffer are the chunks
\* received.
C17_ChunksUpToWindowSize == []C17_Between /\ [][C17_Step]_vars

\* C17 witness: chunks no longer than buffer_size, one of them exactly
\* buffer_size long and cut in two by a window boundary, have given three
\* windows and a sample left over
C17_Witness ==
    /\ ~oversized
    /\ pc_cb = "idle"
    /\ Len(windows) = 3
    /\ Len(buf) = 1
    /\ delivered = 3 * buffer_size + 1

\* C18: the accumulator is never stuck.  Once buffer_size further samples
\* have been received by callbacks entered after the one that last emitted a
\* window (or after the start), a further window has been passed to fft.
C18_NeverStuck == pc_cb = "idle" => since < buffer_size

\* ---- the locks under fair scheduling: claim C19 ---------------------------
AudioHoldsNone == lock_buf # "audio" /\ lock_result # "audio"

MainHoldsNone ==
    /\ lock_paused # "main"
    /\ lock_result # "main"
    /\ lock_mouse # "main"

\* C19: deadlock freedom.  No state has the two threads wait for each other
\* (the callback waits for the slot only while Graph::run holds it for the
\* clone, and Graph::run is then not waiting); under fair scheduling every
\* started callback releases the lock of the accumulator and the lock of the
\* slot, every started render tick releases the lock of the pause flag and
\* the lock of the slot, and a render tick waiting for the lock of the pause
\* flag gets it, unless the process ends.
C19_DeadlockFreedom ==
    /\ []((pc_cb = "lock_result" /\ lock_result = "main") =>
                pc_main = "run_clone")
    /\ (pc_cb # "idle") ~> (AudioHoldsNone \/ ~Running)
    /\ (pc_main \in {"run_paused", "run_clone"}) ~>
            (MainHoldsNone \/ ~Running)
    /\ (pc_main = "run") ~> (pc_main # "run" \/ ~Running)

\* C19 witness: both threads are inside their critical sections and each
\* will need the lock of the slot: the callback holds the accumulator and is
\* about to ask for the slot, Graph::run holds the pause flag and the slot
C19_Witness ==
    /\ pc_cb = "full"
    /\ lock_buf = "audio"
    /\ pc_main = "run_clone"
    /\ lock_paused = "main"
    /\ lock_result = "main"

\* ---- Graph::run on a full spectrum: claim C20 ----------------------------
\* C20: once the working copy holds a full spectrum, whatever the cursor and
\* the width of the window, Graph::run does not abort in the selection of
\* lines 203-207 and an index it returns is less than the number of bars it
\* returns, so that bars[index] at line 402 is in range.
C20_RunCompletes ==
    Len(data_buffer) = buffer_size =>
        /\ panic \notin {"select", "index"}
        /\ (pc_main = "after_run" /\ index # None) => index[1] < Len(bars)
====
